---- MODULE Spec2Model ----
(***************************************************************************)
(* Model of g726_seek: the G726Seek facade (_g726_seek.py), the process-   *)
(* wide SUBTYPE_CACHE, the mono downmixer (ensure_mono.py) and the segment *)
(* reader the facade delegates to.                                         *)
(***************************************************************************)
EXTENDS Integers, Sequences, FiniteSets, TLC

VARIABLES
    SUBTYPE_CACHE,  \* _g726_seek.py:10  dict bits -> subtype string
    available,      \* what sf.available_subtypes("WAV") answers (the platform)
    fs,             \* the file system: path -> file record
    last,           \* the last completed facade call: arguments, outcome, effects
    thr,            \* per thread: position inside resolve_best_subtype and locals
    monoCall,       \* the last ensure_mono call
    segCall         \* the last read_segment call

vars == <<SUBTYPE_CACHE, available, fs, last, thr, monoCall, segCall>>

-----------------------------------------------------------------------------
(* Bounds                                                                  *)

MaxSupported == 5   \* size of the platform-supported set (within Subtypes)
MaxBits == 6        \* requested bits_per_sample range over 2..MaxBits
NThreads == 2       \* threads calling resolve_best_subtype concurrently
MaxElems == 4       \* elements of a PCM buffer
MaxNdim == 3        \* dimensions of a PCM buffer
MaxTime == 6        \* start_sec, duration_sec range over 0..MaxTime half seconds
MaxRate == 3        \* header sample rates 1..MaxRate
MaxFrames == 4      \* header total frame counts 0..MaxFrames

-----------------------------------------------------------------------------
(* Values                                                                  *)

None == "None"

\* Python exceptions, by class name; NoExc is a normal return
NoExc == ""

\* BITS_TYPE = Literal[2, 3, 4, 5]
BITS_TYPE == {2, 3, 4, 5}

\* requested values; the annotation is not enforced at run time
BitsArgs == 2..MaxBits

\* subtypes.py: the static table bits -> standard G.726 subtype
SUBTYPE_MAP == (2 :> "G726_16") @@ (3 :> "G726_24") @@ (4 :> "G726_32") @@ (5 :> "G726_40")

\* the universal fallback named at _g726_seek.py:192-194
IMA_ADPCM == "IMA_ADPCM"

\* every subtype name the resolver can ask the platform about, and one it never asks about
Subtypes ==
    {"G726_16", "NMS_ADPCM_16", "G726_24", "NMS_ADPCM_24", "G726_32", "G721_32",
     "NMS_ADPCM_32", "IMA_ADPCM", "G726_40", "NMS_ADPCM_40", "PCM_16"}

Platforms == {s \in SUBSET Subtypes : Cardinality(s) <= MaxSupported}

-----------------------------------------------------------------------------
(* resolve_best_subtype, _g726_seek.py:155-200                             *)

\* lines 168-180: the priority list per bit depth; any other value keeps []
Candidates(bits) ==
    CASE bits = 2 -> <<"G726_16", "NMS_ADPCM_16">>
      [] bits = 3 -> <<"G726_24", "NMS_ADPCM_24">>
      [] bits = 4 -> <<"G726_32", "G721_32", "NMS_ADPCM_32", "IMA_ADPCM">>
      [] bits = 5 -> <<"G726_40", "NMS_ADPCM_40">>
      [] OTHER -> <<>>

\* lines 183-187: for c in candidates: if c in available: selected = c; break
RECURSIVE ScanFrom(_, _, _)
ScanFrom(cands, i, avail) ==
    IF i > Len(cands) THEN None
    ELSE IF cands[i] \in avail THEN cands[i]
    ELSE ScanFrom(cands, i + 1, avail)

\* a candidate scan that keeps the last supported candidate (the loop without its break)
RECURSIVE ScanLastFrom(_, _, _, _)
ScanLastFrom(cands, i, avail, found) ==
    IF i > Len(cands) THEN found
    ELSE ScanLastFrom(cands, i + 1, avail, IF cands[i] \in avail THEN cands[i] ELSE found)

SelectLast(cands, avail) == ScanLastFrom(cands, 1, avail, None)

SelectFirst(cands, avail) == ScanFrom(cands, 1, avail)

\* a store that rebinds the cache to a fresh dict holding only the new entry
CacheStore_Rebind(c, bits, selected) == [b \in {bits} |-> selected]

\* line 199: SUBTYPE_CACHE[bits] = selected
CacheStore(c, bits, selected) ==
    [b \in DOMAIN c \cup {bits} |-> IF b = bits THEN selected ELSE c[b]]

\* a hit that answers from the static table of subtypes.py where it has the key
CacheHit_Static(c, bits) ==
    IF bits \in DOMAIN SUBTYPE_MAP THEN SUBTYPE_MAP[bits] ELSE c[bits]

\* lines 161-162: the cache hit
CacheHit(c, bits) == c[bits]

\* a fallback that takes IMA_ADPCM without asking whether the platform has it
Fallback_Unchecked(avail) ==
    [exc |-> NoExc, selected |-> IMA_ADPCM, events |-> <<"warn">>]

\* a fallback that takes IMA_ADPCM without printing the warning
Fallback_Silent(avail) ==
    IF IMA_ADPCM \in avail
    THEN [exc |-> NoExc, selected |-> IMA_ADPCM, events |-> <<>>]
    ELSE [exc |-> "RuntimeError", selected |-> None, events |-> <<>>]

\* lines 191-197: nothing selected: IMA_ADPCM with a printed warning, or RuntimeError
Fallback(avail) ==
    IF IMA_ADPCM \in avail
    THEN [exc |-> NoExc, selected |-> IMA_ADPCM, events |-> <<"warn">>]
    ELSE [exc |-> "RuntimeError", selected |-> None, events |-> <<>>]

\* the whole call on cache c and platform answer avail:
\* exc/ret the outcome, cache the cache afterwards, events what it did in order
\* ("query" the platform query of line 165, "warn" the print of line 193,
\* "store" the assignment of line 199)
resolve_best_subtype(bits, c, avail) ==
    IF bits \in DOMAIN c
    THEN [exc |-> NoExc, ret |-> CacheHit(c, bits), cache |-> c, events |-> <<>>]
    ELSE LET first == SelectFirst(Candidates(bits), avail)
             f == IF first = None THEN Fallback(avail)
                  ELSE [exc |-> NoExc, selected |-> first, events |-> <<>>]
         IN IF f.exc # NoExc
            THEN [exc |-> f.exc, ret |-> None, cache |-> c,
                  events |-> <<"query">> \o f.events]
            ELSE [exc |-> NoExc, ret |-> f.selected,
                  cache |-> CacheStore(c, bits, f.selected),
                  events |-> <<"query">> \o f.events \o <<"store">>]

-----------------------------------------------------------------------------
(* PCM buffers: a numpy array is its shape and its row-major elements.     *)
(* A sample is an exact rational <<num, den>>, den >= 1, in lowest terms.  *)

RECURSIVE Gcd(_, _)
Gcd(a, b) == IF b = 0 THEN a ELSE Gcd(b, a % b)

Abs(x) == IF x < 0 THEN -x ELSE x

Rat(n, d) == LET g == Gcd(Abs(n), d) IN <<n \div g, d \div g>>

RatAdd(x, y) == Rat(x[1] * y[2] + y[1] * x[2], x[2] * y[2])

RatDivInt(x, n) == Rat(x[1], x[2] * n)

RECURSIVE Product(_)
Product(shape) == IF shape = <<>> THEN 1 ELSE Head(shape) * Product(Tail(shape))

Ndim(a) == Len(a.shape)

\* ceil(n * target / orig): the length librosa.resample and librosa.load produce
ResampledLen(n, orig_sr, target_sr) == (n * target_sr + orig_sr - 1) \div orig_sr

-----------------------------------------------------------------------------
(* ensure_mono, ensure_mono.py:4-10                                        *)

RECURSIVE RowSum(_, _, _)
RowSum(flat, from, n) ==
    IF n = 0 THEN Rat(0, 1) ELSE RatAdd(flat[from], RowSum(flat, from + 1, n - 1))

RECURSIVE ColSum(_, _, _, _)
ColSum(flat, j, channels, n) ==
    IF n = 0 THEN Rat(0, 1)
    ELSE RatAdd(flat[(n - 1) * channels + j], ColSum(flat, j, channels, n - 1))

\* the mean over the wrong axis: data.mean(axis=0)
MeanAxis0(a) ==
    LET frames == a.shape[1]
        channels == a.shape[2]
    IN [shape |-> <<channels>>,
        flat |-> [j \in 1..channels |->
                    IF frames = 0 THEN Rat(0, 1)
                    ELSE RatDivInt(ColSum(a.flat, j, channels, frames), frames)]]

\* line 8: data.mean(axis=1) of a (frames, channels) array
MeanAxis1(a) ==
    LET frames == a.shape[1]
        channels == a.shape[2]
    IN [shape |-> <<frames>>,
        flat |-> [i \in 1..frames |->
                    RatDivInt(RowSum(a.flat, (i - 1) * channels + 1, channels), channels)]]

ensure_mono(data) ==
    IF Ndim(data) = 1 THEN [exc |-> NoExc, ret |-> data]
    ELSE IF Ndim(data) = 2 THEN [exc |-> NoExc, ret |-> MeanAxis1(data)]
    ELSE [exc |-> "ValueError", ret |-> data]

\* ensure_mono.py:4: the parameters a call may bind
EnsureMonoParams == <<"data">>

\* Python's binding of a call with npos positional arguments and keywords kw to
\* the parameter list params: a keyword that names no unbound parameter is a TypeError
BindsOk(params, npos, kw) ==
    /\ npos <= Len(params)
    /\ kw \subseteq {params[i] : i \in (npos + 1)..Len(params)}

\* _g726_seek.py:103: ensure_mono(data, style="librosa")
ConvertMonoCall(data) ==
    IF BindsOk(EnsureMonoParams, 1, {"style"})
    THEN ensure_mono(data)
    ELSE [exc |-> "TypeError", ret |-> data]

-----------------------------------------------------------------------------
(* Files and the libraries the facade drives                               *)

Missing == [kind |-> "missing", frames |-> 0, samplerate |-> 0]

AudioFile(frames, samplerate) ==
    [kind |-> "audio", frames |-> frames, samplerate |-> samplerate]

\* an existence check that was left out: every path passes
Exists_Always(files, path) == TRUE

\* os.path.exists
Exists(files, path) == files[path].kind # "missing"

InputPaths == {"in.wav", "junk.bin", "gone.wav"}
OutputPath == "out.wav"
Paths == InputPaths \cup {OutputPath}

InitFs ==
    [p \in Paths |->
        IF p = "in.wav" THEN AudioFile(4, 8000)
        ELSE IF p = "junk.bin" THEN [kind |-> "junk", frames |-> 0, samplerate |-> 0]
        ELSE Missing]

SampleRates == {8000, 16000}

MonoData == [shape |-> <<2>>, flat |-> <<Rat(1, 1), Rat(-1, 1)>>]
StereoData == [shape |-> <<2, 2>>, flat |-> <<Rat(1, 1), Rat(0, 1), Rat(-1, 1), Rat(1, 1)>>]
ApiData == {MonoData, StereoData}

\* librosa.resample(data, orig_sr, target_sr): resamples along the last axis;
\* the sample values are the library's, held here at the nearest earlier sample
Resample(a, orig_sr, target_sr) ==
    LET n == a.shape[Len(a.shape)]
        m == ResampledLen(n, orig_sr, target_sr)
        rows == Product(a.shape) \div n
    IN [shape |-> [i \in 1..Len(a.shape) |-> IF i = Len(a.shape) THEN m ELSE a.shape[i]],
        flat |-> [k \in 1..(rows * m) |->
                    a.flat[((k - 1) \div m) * n + (((k - 1) % m) * n) \div m + 1]]]

\* sf.write(path, data, samplerate, format="WAV", subtype=subtype): libsndfile
\* refuses a subtype the platform does not support and data of more than 2 dimensions
SfWriteOk(data, subtype, avail) == subtype \in avail /\ Ndim(data) \in {1, 2}

WriteRecord(path, data, samplerate, subtype) ==
    [path |-> path, subtype |-> subtype, samplerate |-> samplerate,
     frames |-> data.shape[1], ndim |-> Ndim(data)]

FsAfterWrite(files, path, data, samplerate) ==
    [files EXCEPT ![path] = AudioFile(data.shape[1], samplerate)]

\* the outcome of a facade call: exc/ret, the cache and files afterwards, what it
\* did in order (events), what it handed to sf.write (wrote), and for the
\* ValueError of write the choices its message lists
Outcome(exc, ret, c, files, events, wrote, choices) ==
    [exc |-> exc, ret |-> ret, cache |-> c, fs |-> files, events |-> events,
     wrote |-> wrote, choices |-> choices]

\* the tail shared by write, convert and convert_from_file: sf.write, return path
WriteThenReturn(path, data, samplerate, r, files, avail, events) ==
    IF SfWriteOk(data, r.ret, avail)
    THEN Outcome(NoExc, path, r.cache, FsAfterWrite(files, path, data, samplerate),
                 events \o <<"sf_write">>,
                 <<WriteRecord(path, data, samplerate, r.ret)>>, {})
    ELSE Outcome("LibsndfileError", None, r.cache, files, events \o <<"sf_write">>,
                 <<>>, {})

-----------------------------------------------------------------------------
(* G726Seek.write, _g726_seek.py:42-74                                     *)

write(file_path, data, sample_rate, bits_per_sample, c, files, avail) ==
    LET r == resolve_best_subtype(bits_per_sample, c, avail) IN
    IF r.exc # NoExc
    THEN Outcome(r.exc, None, r.cache, files, r.events, <<>>, {})
    ELSE IF r.ret = ""
    THEN Outcome("ValueError", None, r.cache, files, r.events, <<>>, DOMAIN r.cache)
    ELSE WriteThenReturn(file_path, data, sample_rate, r, files, avail, r.events)

-----------------------------------------------------------------------------
(* G726Seek.convert, _g726_seek.py:76-115                                  *)

convert(data, output_path, src_sr, target_sr, bits, to_mono, c, files, avail) ==
    LET m == IF to_mono THEN ConvertMonoCall(data) ELSE [exc |-> NoExc, ret |-> data]
        ev1 == IF to_mono THEN <<"ensure_mono">> ELSE <<>>
    IN
    IF m.exc # NoExc
    THEN Outcome(m.exc, None, c, files, ev1, <<>>, {})
    ELSE LET d2 == IF src_sr # target_sr THEN Resample(m.ret, src_sr, target_sr) ELSE m.ret
             ev2 == IF src_sr # target_sr THEN ev1 \o <<"resample">> ELSE ev1
             r == resolve_best_subtype(bits, c, avail)
         IN IF r.exc # NoExc
            THEN Outcome(r.exc, None, r.cache, files, ev2 \o r.events, <<>>, {})
            ELSE WriteThenReturn(output_path, d2, target_sr, r, files, avail,
                                 ev2 \o r.events)

-----------------------------------------------------------------------------
(* G726Seek.convert_from_file, _g726_seek.py:117-153                       *)

\* librosa.load(input_path, sr=target_sr, mono=to_mono) of a readable audio file:
\* the decoded samples at the target rate (silence stands for the content)
Loaded(file, target_sr) ==
    LET n == ResampledLen(file.frames, file.samplerate, target_sr)
    IN [shape |-> <<n>>, flat |-> [i \in 1..n |-> Rat(0, 1)]]

convert_from_file(input_path, output_path, target_sr, bits, to_mono, c, files, avail) ==
    IF ~Exists(files, input_path)
    THEN Outcome("FileNotFoundError", None, c, files, <<"exists">>, <<>>, {})
    ELSE IF files[input_path].kind # "audio"
    THEN Outcome("RuntimeError", None, c, files, <<"exists", "load">>, <<>>, {})
    ELSE LET y == Loaded(files[input_path], target_sr)
             r == resolve_best_subtype(bits, c, avail)
             ev == <<"exists", "load">> \o r.events
         IN IF r.exc # NoExc
            THEN Outcome(r.exc, None, r.cache, files, ev, <<>>, {})
            ELSE WriteThenReturn(output_path, y, target_sr, r, files, avail, ev)

-----------------------------------------------------------------------------
(* G726Seek.get_duration, _g726_seek.py:18-30                              *)

get_duration(file_path, c, files) ==
    IF ~Exists(files, file_path)
    THEN Outcome("FileNotFoundError", None, c, files, <<"exists">>, <<>>, {})
    ELSE IF files[file_path].kind # "audio"
    THEN \* sf.SoundFile(...) raises while opening: the with block is never entered
         Outcome("LibsndfileError", None, c, files, <<"exists", "open_failed">>, <<>>, {})
    ELSE Outcome(NoExc, Rat(files[file_path].frames, files[file_path].samplerate),
                 c, files, <<"exists", "open", "read_header", "close">>, <<>>, {})

-----------------------------------------------------------------------------
(* The facade as a state machine: one action per public call               *)

EmptyCache == [b \in {} |-> None]

\* what `last` records of a call: its arguments (defaults where the call has
\* none) and its outcome
CallRecord(op, bits, path, data_ndim, src_sr, target_sr, to_mono, o) ==
    [op |-> op, bits |-> bits, path |-> path, ndim |-> data_ndim,
     src_sr |-> src_sr, target_sr |-> target_sr, to_mono |-> to_mono,
     exc |-> o.exc, ret |-> o.ret, events |-> o.events,
     wrote |-> o.wrote, choices |-> o.choices]

NoCall ==
    CallRecord("none", 0, "", 0, 0, 0, FALSE,
               Outcome(NoExc, None, EmptyCache, InitFs, <<>>, <<>>, {}))

Threads == 1..NThreads

IdleThread == [pc |-> "idle", bits |-> 0, avail |-> {}, selected |-> None,
               exc |-> NoExc, ret |-> None]

Others == /\ thr = [t \in Threads |-> IdleThread]
          /\ monoCall = [op |-> "none"]
          /\ segCall = [op |-> "none"]

\* the three platforms the facade is run on: no ADPCM at all, IMA ADPCM only,
\* and the WAV subtypes of a current libsndfile
NoAdpcm == {"PCM_16"}
ImaOnly == {"IMA_ADPCM", "PCM_16"}
Libsndfile == {"NMS_ADPCM_16", "NMS_ADPCM_24", "NMS_ADPCM_32", "G721_32", "IMA_ADPCM", "PCM_16"}
FacadePlatforms == {NoAdpcm, ImaOnly, Libsndfile}

\* the process starts on a current libsndfile with an empty cache
Init ==
    /\ SUBTYPE_CACHE = EmptyCache
    /\ available = Libsndfile
    /\ fs = InitFs
    /\ last = NoCall
    /\ Others

Untouched == UNCHANGED <<available, thr, monoCall, segCall>>

Resolve(bits) ==
    LET r == resolve_best_subtype(bits, SUBTYPE_CACHE, available)
        o == Outcome(r.exc, r.ret, r.cache, fs, r.events, <<>>, {})
    IN /\ last' = CallRecord("resolve", bits, "", 0, 0, 0, FALSE, o)
       /\ SUBTYPE_CACHE' = o.cache
       /\ fs' = o.fs
       /\ Untouched

Write(data, sample_rate, bits) ==
    LET o == write(OutputPath, data, sample_rate, bits, SUBTYPE_CACHE, fs, available)
    IN /\ last' = CallRecord("write", bits, OutputPath, Ndim(data), 0, sample_rate, FALSE, o)
       /\ SUBTYPE_CACHE' = o.cache
       /\ fs' = o.fs
       /\ Untouched

Convert(data, src_sr, target_sr, bits, to_mono) ==
    LET o == convert(data, OutputPath, src_sr, target_sr, bits, to_mono,
                     SUBTYPE_CACHE, fs, available)
    IN /\ last' = CallRecord("convert", bits, OutputPath, Ndim(data), src_sr, target_sr,
                             to_mono, o)
       /\ SUBTYPE_CACHE' = o.cache
       /\ fs' = o.fs
       /\ Untouched

ConvertFromFile(input_path, target_sr, bits, to_mono) ==
    LET o == convert_from_file(input_path, OutputPath, target_sr, bits, to_mono,
                               SUBTYPE_CACHE, fs, available)
    IN /\ last' = CallRecord("convert_from_file", bits, input_path, 0, 0, target_sr,
                             to_mono, o)
       /\ SUBTYPE_CACHE' = o.cache
       /\ fs' = o.fs
       /\ Untouched

GetDuration(file_path) ==
    LET o == get_duration(file_path, SUBTYPE_CACHE, fs)
    IN /\ last' = CallRecord("get_duration", 0, file_path, 0, 0, 0, FALSE, o)
       /\ SUBTYPE_CACHE' = o.cache
       /\ fs' = o.fs
       /\ Untouched

\* the environment: the platform answers differently from now on
ChangePlatform ==
    /\ available' \in FacadePlatforms \ {available}
    /\ UNCHANGED <<SUBTYPE_CACHE, fs, last, thr, monoCall, segCall>>

\* the bit depths the facade calls are tried with: one whose candidates the
\* platforms lack, the one that lists IMA_ADPCM itself, and one outside BITS_TYPE
FacadeBits == {2, 4, MaxBits}

\* every bit depth with the default arguments, and every other argument with
\* the default bit depth (bits=2)
BitsFor(varied) == IF varied THEN {2} ELSE FacadeBits

Next ==
    \/ \E bits \in FacadeBits : Resolve(bits)
    \/ \E data \in ApiData :
          \E bits \in BitsFor(Ndim(data) # 1) : Write(data, 16000, bits)
    \/ \E data \in ApiData, src_sr \in SampleRates, to_mono \in BOOLEAN :
          \E bits \in BitsFor(Ndim(data) # 1 \/ src_sr # 16000 \/ to_mono) :
             Convert(data, src_sr, 16000, bits, to_mono)
    \/ \E p \in Paths, to_mono \in BOOLEAN :
          \E bits \in BitsFor(p # "in.wav" \/ ~to_mono) :
             ConvertFromFile(p, 16000, bits, to_mono)
    \/ \E p \in Paths : GetDuration(p)
    \/ ChangePlatform

Spec == Init /\ [][Next]_vars

\* the resolver alone, on every platform of at most MaxSupported subtypes
InitRes ==
    /\ SUBTYPE_CACHE = EmptyCache
    /\ available \in Platforms
    /\ fs = InitFs
    /\ last = NoCall
    /\ Others

NextRes == \E bits \in BitsArgs : Resolve(bits)

SpecRes == InitRes /\ [][NextRes]_vars

-----------------------------------------------------------------------------
(* resolve_best_subtype called from several threads: each thread runs the  *)
(* function's statements in order, interleaved with the others; the dict   *)
(* operations on SUBTYPE_CACHE are atomic under the interpreter lock       *)

Step(t, rec) ==
    /\ thr' = [thr EXCEPT ![t] = rec]
    /\ UNCHANGED <<available, fs, last, monoCall, segCall>>

\* a thread enters resolve_best_subtype(bits)
TCall(t, bits) ==
    /\ thr[t].pc \in {"idle", "done"}
    /\ Step(t, [IdleThread EXCEPT !.pc = "check", !.bits = bits])
    /\ UNCHANGED SUBTYPE_CACHE

\* line 161: if bits in SUBTYPE_CACHE
TCheck(t) ==
    /\ thr[t].pc = "check"
    /\ Step(t, [thr[t] EXCEPT !.pc = IF thr[t].bits \in DOMAIN SUBTYPE_CACHE
                                      THEN "hit" ELSE "query"])
    /\ UNCHANGED SUBTYPE_CACHE

\* line 162: return SUBTYPE_CACHE[bits]
THit(t) ==
    /\ thr[t].pc = "hit"
    /\ Step(t, [thr[t] EXCEPT !.pc = "done", !.ret = CacheHit(SUBTYPE_CACHE, thr[t].bits)])
    /\ UNCHANGED SUBTYPE_CACHE

\* line 165: available = sf.available_subtypes("WAV")
TQuery(t) ==
    /\ thr[t].pc = "query"
    /\ Step(t, [thr[t] EXCEPT !.pc = "scan", !.avail = available])
    /\ UNCHANGED SUBTYPE_CACHE

\* lines 168-187: the candidate list and the scan, on the thread's locals
TScan(t) ==
    /\ thr[t].pc = "scan"
    /\ LET selected == SelectFirst(Candidates(thr[t].bits), thr[t].avail)
       IN Step(t, [thr[t] EXCEPT !.selected = selected,
                                 !.pc = IF selected = None THEN "fallback" ELSE "store"])
    /\ UNCHANGED SUBTYPE_CACHE

\* lines 191-197: the fallback, or the RuntimeError that ends the call
TFallback(t) ==
    /\ thr[t].pc = "fallback"
    /\ LET f == Fallback(thr[t].avail)
       IN Step(t, [thr[t] EXCEPT !.selected = f.selected, !.exc = f.exc,
                                 !.pc = IF f.exc = NoExc THEN "store" ELSE "done"])
    /\ UNCHANGED SUBTYPE_CACHE

\* line 199: SUBTYPE_CACHE[bits] = selected
TStore(t) ==
    /\ thr[t].pc = "store"
    /\ SUBTYPE_CACHE' = CacheStore(SUBTYPE_CACHE, thr[t].bits, thr[t].selected)
    /\ Step(t, [thr[t] EXCEPT !.pc = "return"])

\* line 200: return selected
TReturn(t) ==
    /\ thr[t].pc = "return"
    /\ Step(t, [thr[t] EXCEPT !.pc = "done", !.ret = thr[t].selected])
    /\ UNCHANGED SUBTYPE_CACHE

InitConc ==
    /\ SUBTYPE_CACHE = EmptyCache
    /\ available \in FacadePlatforms
    /\ fs = InitFs
    /\ last = NoCall
    /\ Others

NextConc ==
    \/ \E t \in Threads, bits \in BITS_TYPE : TCall(t, bits)
    \/ \E t \in Threads : TCheck(t)
    \/ \E t \in Threads : THit(t)
    \/ \E t \in Threads : TQuery(t)
    \/ \E t \in Threads : TScan(t)
    \/ \E t \in Threads : TFallback(t)
    \/ \E t \in Threads : TStore(t)
    \/ \E t \in Threads : TReturn(t)

SpecConc == InitConc /\ [][NextConc]_vars

-----------------------------------------------------------------------------
(* ensure_mono on every small buffer                                       *)

\* the sample values buffers are filled with
Samples == {Rat(-1, 1), Rat(0, 1), Rat(1, 1)}

\* shapes of 0 to MaxNdim dimensions holding at most MaxElems elements; only the
\* first dimension (frames) may be 0
Shapes ==
    {sh \in UNION {[1..k -> 0..MaxElems] : k \in 0..MaxNdim} :
        /\ \A i \in 2..Len(sh) : sh[i] >= 1
        /\ Product(sh) <= MaxElems}

Arrays ==
    UNION {{[shape |-> sh, flat |-> f] : f \in [1..Product(sh) -> Samples]} : sh \in Shapes}

\* the buffer handed to ensure_mono is drawn at the start; the call applies it
EnsureMono ==
    /\ monoCall.op = "pending"
    /\ LET m == ensure_mono(monoCall.data)
       IN monoCall' = [op |-> "ensure_mono", data |-> monoCall.data,
                       exc |-> m.exc, ret |-> m.ret]
    /\ UNCHANGED <<SUBTYPE_CACHE, available, fs, last, thr, segCall>>

InitMono ==
    /\ SUBTYPE_CACHE = EmptyCache
    /\ available = Libsndfile
    /\ fs = InitFs
    /\ last = NoCall
    /\ thr = [t \in Threads |-> IdleThread]
    /\ \E data \in Arrays :
          monoCall = [op |-> "pending", data |-> data, exc |-> NoExc, ret |-> data]
    /\ segCall = [op |-> "none"]

NextMono == EnsureMono

SpecMono == InitMono /\ [][NextMono]_vars

-----------------------------------------------------------------------------
(* read_segment, _g726_seek.py:32-40, and the segment reader it imports    *)

\* Python's round(): to the nearest integer, a tie to the even one
Round(x) ==
    LET lo == x[1] \div x[2]
        twice == 2 * (x[1] % x[2])
    IN IF twice < x[2] THEN lo
       ELSE IF twice > x[2] THEN lo + 1
       ELSE IF lo % 2 = 0 THEN lo ELSE lo + 1

RatMulInt(x, n) == Rat(x[1] * n, x[2])

\* g726_seek.read_audio_segment.read_audio_segment on a file's header
read_audio_segment(file, start_sec, duration_sec) ==
    LET start_frame == Round(RatMulInt(start_sec, file.samplerate))
        frame_count == Round(RatMulInt(duration_sec, file.samplerate))
        avail_frames == file.frames - start_frame
    IN IF start_frame >= file.frames
       THEN [exc |-> "SeekOutOfRange", start_frame |-> start_frame, frames |-> 0]
       ELSE [exc |-> NoExc, start_frame |-> start_frame,
             frames |-> IF frame_count > avail_frames THEN avail_frames ELSE frame_count]

\* a delegation that hands the two times over in the wrong order
read_segment_Swapped(file_path, start_sec, duration_sec, files) ==
    read_audio_segment(files[file_path], duration_sec, start_sec)

\* lines 38-40: return read_audio_segment(file_path, start_sec, duration_sec)
read_segment(file_path, start_sec, duration_sec, files) ==
    read_audio_segment(files[file_path], start_sec, duration_sec)

\* times in half seconds
Times == {Rat(k, 2) : k \in 0..MaxTime}

ReadSegment(start_sec, duration_sec) ==
    LET r == read_segment("in.wav", start_sec, duration_sec, fs)
    IN /\ segCall' = [op |-> "read_segment", start_sec |-> start_sec,
                      duration_sec |-> duration_sec, exc |-> r.exc,
                      start_frame |-> r.start_frame, frames |-> r.frames]
       /\ UNCHANGED <<SUBTYPE_CACHE, available, fs, last, thr, monoCall>>

\* the file read from: any header of 0..MaxFrames frames at rate 1..MaxRate
InitSeek ==
    /\ SUBTYPE_CACHE = EmptyCache
    /\ available = Libsndfile
    /\ \E frames \in 0..MaxFrames, samplerate \in 1..MaxRate :
          fs = [InitFs EXCEPT !["in.wav"] = AudioFile(frames, samplerate)]
    /\ last = NoCall
    /\ Others

NextSeek ==
    \E start_sec \in Times, duration_sec \in Times \ {Rat(0, 2)} :
        ReadSegment(start_sec, duration_sec)

SpecSeek == InitSeek /\ [][NextSeek]_vars

-----------------------------------------------------------------------------
(* Properties of the resolver                                              *)

Range(seq) == {seq[i] : i \in 1..Len(seq)}

Count(seq, e) == Cardinality({i \in 1..Len(seq) : seq[i] = e})

\* the priority lists as the documentation of the resolver states them
PriorityList ==
    (2 :> <<"G726_16", "NMS_ADPCM_16">>) @@
    (3 :> <<"G726_24", "NMS_ADPCM_24">>) @@
    (4 :> <<"G726_32", "G721_32", "NMS_ADPCM_32", "IMA_ADPCM">>) @@
    (5 :> <<"G726_40", "NMS_ADPCM_40">>)

ListedFor(bits) == IF bits \in DOMAIN PriorityList THEN Range(PriorityList[bits]) ELSE {}

NoCandidate(bits, avail) == ListedFor(bits) \cap avail = {}

IsResolve == last.op = "resolve"

\* the call missed the cache: it asked the platform
Missed == "query" \in Range(last.events)

\* C1 as stated: for every bit depth in {2,3,4,5} and every platform, resolve
\* returns a variant, and that variant is the one the cache holds for the bit depth
C1_Original ==
    IsResolve /\ last.bits \in BITS_TYPE =>
        /\ last.exc = NoExc
        /\ last.ret \in Subtypes
        /\ last.bits \in DOMAIN SUBTYPE_CACHE
        /\ SUBTYPE_CACHE[last.bits] = last.ret

\* C1 amended: for every bit depth b in {2,3,4,5}, a call resolve(b) returns a
\* variant of the platform and caches it when the platform supports one of b's
\* candidates or IMA_ADPCM, fails with RuntimeError caching nothing when it
\* supports none of them, and once b is cached every later call returns the
\* identical cached variant
C1_Amended ==
    [][\A b \in BITS_TYPE :
          (last'.op = "resolve" /\ last'.bits = b) =>
             /\ b \in DOMAIN SUBTYPE_CACHE =>
                   /\ last'.exc = NoExc
                   /\ last'.ret = SUBTYPE_CACHE[b]
                   /\ SUBTYPE_CACHE' = SUBTYPE_CACHE
             /\ (b \notin DOMAIN SUBTYPE_CACHE
                   /\ (~NoCandidate(b, available) \/ IMA_ADPCM \in available)) =>
                   /\ last'.exc = NoExc
                   /\ last'.ret \in available
                   /\ b \in DOMAIN SUBTYPE_CACHE'
                   /\ SUBTYPE_CACHE'[b] = last'.ret
             /\ (b \notin DOMAIN SUBTYPE_CACHE
                   /\ NoCandidate(b, available) /\ IMA_ADPCM \notin available) =>
                   /\ last'.exc = "RuntimeError"
                   /\ SUBTYPE_CACHE' = SUBTYPE_CACHE
      ]_vars

\* a repeated call answered from the cache with a variant other than the standard one
C1_Witness ==
    /\ IsResolve /\ last.bits \in BITS_TYPE
    /\ ~Missed /\ last.exc = NoExc
    /\ last.ret # SUBTYPE_MAP[last.bits]

\* C3 as stated: with no candidate supported, resolve returns IMA_ADPCM with a
\* warning if IMA_ADPCM is supported and fails without caching otherwise; and
\* every call that returns IMA_ADPCM emits a warning
C3_Original ==
    IsResolve =>
        /\ (NoCandidate(last.bits, available) /\ IMA_ADPCM \in available) =>
               last.exc = NoExc /\ last.ret = IMA_ADPCM /\ "warn" \in Range(last.events)
        /\ (NoCandidate(last.bits, available) /\ IMA_ADPCM \notin available) =>
               /\ last.exc = "RuntimeError"
               /\ last.bits \notin DOMAIN SUBTYPE_CACHE
        /\ (last.exc = NoExc /\ last.ret = IMA_ADPCM) => "warn" \in Range(last.events)

\* C3 amended: on a cache miss with no candidate of the bit depth supported,
\* resolve returns IMA_ADPCM with a warning if IMA_ADPCM is supported and fails
\* with RuntimeError without caching otherwise; a warning is emitted exactly on
\* such a miss (not on a cache hit that returns IMA_ADPCM, and not when 4-bit
\* takes IMA_ADPCM from its own candidate list)
C3_Amended ==
    IsResolve =>
        /\ (Missed /\ NoCandidate(last.bits, available) /\ IMA_ADPCM \in available) =>
               last.exc = NoExc /\ last.ret = IMA_ADPCM /\ Count(last.events, "warn") = 1
        /\ (Missed /\ NoCandidate(last.bits, available) /\ IMA_ADPCM \notin available) =>
               /\ last.exc = "RuntimeError"
               /\ "store" \notin Range(last.events)
               /\ last.bits \notin DOMAIN SUBTYPE_CACHE
        /\ "warn" \in Range(last.events) =>
               /\ Missed /\ NoCandidate(last.bits, available)
               /\ last.exc = NoExc /\ last.ret = IMA_ADPCM

\* a miss that fell back to IMA_ADPCM with a warning
C3_Witness ==
    /\ IsResolve /\ Missed /\ NoCandidate(last.bits, available)
    /\ last.ret = IMA_ADPCM /\ "warn" \in Range(last.events)

\* C10: on a miss for b in {2,3,4,5} with a listed candidate supported, resolve
\* returns the first supported entry of b's priority list, never a later entry
\* while an earlier one is supported; every cached value is a supported subtype
C10_FirstSupported ==
    /\ (IsResolve /\ last.bits \in BITS_TYPE /\ Missed
          /\ ~NoCandidate(last.bits, available)) =>
          LET list == PriorityList[last.bits] IN
          /\ last.exc = NoExc
          /\ \E i \in 1..Len(list) :
                /\ last.ret = list[i]
                /\ list[i] \in available
                /\ \A j \in 1..(i - 1) : list[j] \notin available
    /\ \A b \in DOMAIN SUBTYPE_CACHE \cap BITS_TYPE : SUBTYPE_CACHE[b] \in available

\* 4-bit resolved to G721_32 with the lower-priority NMS_ADPCM_32 supported too
C10_Witness ==
    /\ IsResolve /\ last.bits = 4 /\ Missed
    /\ last.ret = "G721_32"
    /\ "NMS_ADPCM_32" \in available

-----------------------------------------------------------------------------
(* Properties of the facade                                                *)

UsesResolver == {"resolve", "write", "convert", "convert_from_file"}

\* C5: over any sequence of resolve/write/convert/convert_from_file calls (and
\* changes of the platform), a cached entry is never changed or removed, a call
\* for a cached bit depth returns the entry without querying the platform, and
\* the call that caches a bit depth queried the platform exactly once
C5_CacheForLife ==
    [][/\ \A b \in DOMAIN SUBTYPE_CACHE :
             /\ b \in DOMAIN SUBTYPE_CACHE'
             /\ SUBTYPE_CACHE'[b] = SUBTYPE_CACHE[b]
             /\ (last' # last /\ last'.op \in UsesResolver /\ last'.bits = b) =>
                   /\ "query" \notin Range(last'.events)
                   /\ last'.op = "resolve" => last'.ret = SUBTYPE_CACHE[b]
                   /\ last'.wrote # <<>> => last'.wrote[1].subtype = SUBTYPE_CACHE[b]
       /\ \A b \in DOMAIN SUBTYPE_CACHE' \ DOMAIN SUBTYPE_CACHE :
             /\ last'.op \in UsesResolver /\ last'.bits = b
             /\ Count(last'.events, "query") = 1
      ]_vars

\* a call answered from the cache with a subtype the platform no longer supports
C5_Witness ==
    /\ IsResolve /\ ~Missed /\ last.exc = NoExc
    /\ last.ret \notin available
    /\ last.ret = SUBTYPE_CACHE[last.bits]

\* C2: write with bits_per_sample outside {2,3,4,5} fails with the ValueError
\* whose message lists {2,3,4,5}, writes no file and caches nothing for the value
C2_InvalidBitsRejected ==
    (last.op = "write" /\ last.bits \notin BITS_TYPE) =>
        /\ last.exc = "ValueError"
        /\ last.choices = BITS_TYPE
        /\ last.wrote = <<>>
        /\ last.bits \notin DOMAIN SUBTYPE_CACHE

\* failures of the platform rather than of the call's own steps
PlatformErrors == {"RuntimeError", "LibsndfileError"}

\* C8: convert with to_mono=True on a 1-D or 2-D buffer completes (the platform
\* permitting): the downmixer is invoked and yields a 1-D buffer, the buffer is
\* resampled iff src_sr # target_sr, written, and output_path returned; with
\* to_mono=False the downmixer is not invoked
C8_ConvertMono ==
    last.op = "convert" =>
        /\ (last.to_mono /\ last.ndim \in {1, 2} /\ last.exc \notin PlatformErrors) =>
               /\ last.exc = NoExc
               /\ last.ret = OutputPath
               /\ "ensure_mono" \in Range(last.events)
               /\ "resample" \in Range(last.events) <=> last.src_sr # last.target_sr
               /\ Len(last.wrote) = 1
               /\ last.wrote[1].ndim = 1
               /\ last.wrote[1].subtype = SUBTYPE_CACHE[last.bits]
        /\ ~last.to_mono => "ensure_mono" \notin Range(last.events)

\* C9: get_duration and convert_from_file on a path that does not exist fail with
\* FileNotFoundError having done nothing but the existence check (nothing opened,
\* loaded, resolved, cached or written); get_duration closes every handle it opens
C9_MissingFileFirst ==
    [][(last' # last /\ last'.op \in {"get_duration", "convert_from_file"}) =>
          /\ fs[last'.path].kind = "missing" =>
                /\ last'.exc = "FileNotFoundError"
                /\ last'.events = <<"exists">>
                /\ last'.wrote = <<>>
                /\ SUBTYPE_CACHE' = SUBTYPE_CACHE
                /\ fs' = fs
          /\ last'.op = "get_duration" =>
                /\ Count(last'.events, "open") = Count(last'.events, "close")
                /\ last'.exc # NoExc => "open" \notin Range(last'.events)
      ]_vars

\* convert_from_file was called on a missing input with an uncached bit depth
C9_Witness ==
    /\ last.op = "convert_from_file"
    /\ fs[last.path].kind = "missing"
    /\ last.exc = "FileNotFoundError"
    /\ last.bits \notin DOMAIN SUBTYPE_CACHE

-----------------------------------------------------------------------------
(* Properties of concurrent resolution                                     *)

Returned(t) == thr[t].pc = "done" /\ thr[t].exc = NoExc

\* C4: under every interleaving of the threads' steps, every call that has
\* returned for a bit depth returned the variant the cache holds for it (so all
\* calls for one bit depth agree), and no store changes or removes an entry
C4_ConcurrentIdempotent ==
    [][/\ \A t \in Threads :
             Returned(t)' =>
                /\ thr'[t].bits \in DOMAIN SUBTYPE_CACHE'
                /\ thr'[t].ret = SUBTYPE_CACHE'[thr'[t].bits]
       /\ \A t, u \in Threads :
             (Returned(t)' /\ Returned(u)' /\ thr'[t].bits = thr'[u].bits) =>
                thr'[t].ret = thr'[u].ret
       /\ \A b \in DOMAIN SUBTYPE_CACHE :
             b \in DOMAIN SUBTYPE_CACHE' /\ SUBTYPE_CACHE'[b] = SUBTYPE_CACHE[b]
      ]_vars

\* two threads both missed the cache for the same bit depth, both stored, and
\* both returned, while the cache also holds another bit depth
C4_Witness ==
    \E t, u \in Threads :
        /\ t # u
        /\ Returned(t) /\ Returned(u)
        /\ thr[t].bits = thr[u].bits
        /\ thr[t].selected # None /\ thr[u].selected # None
        /\ thr[t].ret # SUBTYPE_MAP[thr[t].bits]
        /\ DOMAIN SUBTYPE_CACHE # {thr[t].bits}

-----------------------------------------------------------------------------
(* Properties of the downmixer and the segment reader                      *)

RECURSIVE SumOver(_, _)
SumOver(f, idx) ==
    IF idx = {} THEN 0
    ELSE LET i == CHOOSE j \in idx : TRUE IN f[i][1] + SumOver(f, idx \ {i})

\* C7: ensure_mono returns a 1-D buffer unchanged; for a 2-D (frames, channels)
\* buffer it returns a 1-D buffer of length frames whose i-th element is the
\* average of the channels of frame i; for any other number of dimensions it
\* fails with ValueError
C7_EnsureMono ==
    monoCall.op = "ensure_mono" =>
        LET d == monoCall.data
            r == monoCall.ret
        IN /\ Len(d.shape) = 1 => monoCall.exc = NoExc /\ r = d
           /\ Len(d.shape) = 2 =>
                 /\ monoCall.exc = NoExc
                 /\ r.shape = <<d.shape[1]>>
                 /\ Len(r.flat) = d.shape[1]
                 /\ \A i \in 1..d.shape[1] :
                       /\ r.flat[i][2] > 0
                       /\ r.flat[i][1] * d.shape[2] =
                            r.flat[i][2] *
                              SumOver(d.flat, ((i - 1) * d.shape[2] + 1)..(i * d.shape[2]))
           /\ Len(d.shape) \notin {1, 2} => monoCall.exc = "ValueError"

\* a (2, 2) buffer whose two frames average to 1/2 and to -1
C7_Witness ==
    /\ monoCall.op = "ensure_mono"
    /\ monoCall.data.shape = <<2, 2>>
    /\ monoCall.exc = NoExc
    /\ monoCall.ret.flat = <<Rat(1, 2), Rat(-1, 1)>>

\* C6: read_segment fails with SeekOutOfRange whenever
\* round(start_sec * sample_rate) >= total_frame_count, returning no buffer
C6_SeekOutOfRange ==
    segCall.op = "read_segment" =>
        LET file == fs["in.wav"]
            start_frame == Round(Rat(segCall.start_sec[1] * file.samplerate,
                                     segCall.start_sec[2]))
        IN start_frame >= file.frames =>
              segCall.exc = "SeekOutOfRange" /\ segCall.frames = 0

\* the start rounds (from a tie) onto the end of a non-empty file, and the
\* requested duration alone would have fitted into the file
C6_Witness ==
    /\ segCall.op = "read_segment"
    /\ segCall.exc = "SeekOutOfRange"
    /\ fs["in.wav"].frames > 0
    /\ segCall.start_frame = fs["in.wav"].frames
    /\ (2 * segCall.start_sec[1] * fs["in.wav"].samplerate) % (2 * segCall.start_sec[2])
          = segCall.start_sec[2]
    /\ Round(RatMulInt(segCall.duration_sec, fs["in.wav"].samplerate)) < fs["in.wav"].frames

====
